---- MODULE Spec2Model ----
(***************************************************************************)
(* Attribute-based authorization over an entity/component store:           *)
(* ontology_auth (Policy, Entitlement, the m2m_changed receivers and the   *)
(* DomainAuthorizationBackend) on top of ontology (Entity, Domain,         *)
(* Attribute).  The store is the relational state; every action is one     *)
(* mutation together with the receivers Django runs inside the mutation's  *)
(* transaction, so an exception in a receiver rolls the mutation back.     *)
(***************************************************************************)
EXTENDS Integers, Sequences, FiniteSets, TLC

\* ------------------------------------------------------------------ bounds
MaxOps == 4        \* mutations attempted in one behaviour of Spec
MaxQueryOps == 3   \* mutations attempted before the queries of SpecQuery
MaxDagOps == 4     \* membership mutations in one behaviour of SpecDag
MaxBatch == 1
MaxDagBatch == 2      \* objects handed to one many-to-many add / remove
MaxPolicies == 1   \* rows of the policy table

\* ---------------------------------------------------------------- universe
\* Domains are components: a domain's primary key is its entity's id.
Domain == {"D", "SD", "SSD"}
Plain == {"U", "T", "V"}
Entity == Plain \cup Domain
ContentType == {"user", "thing", "domain"}
\* content_type.app_label of the host's ContentType rows
app_label == [c \in ContentType |->
                 CASE c = "user" -> "ontology_auth"
                   [] c = "thing" -> "testapp"
                   [] c = "domain" -> "ontology"]
\* the component each entity is created with
InitialContentTypes == [e \in Entity |->
                 IF e \in Domain THEN {"domain"}
                 ELSE IF e = "U" THEN {"user"} ELSE {"thing"}]

\* A component row is its deleted_time: NoRow when the entity has no
\* component of the type, 0 for NULL (live), else the time of the soft delete.
NoRow == -1
Rows(cts) == [e \in Entity |-> [ct \in ContentType |-> IF ct \in cts[e] THEN 0 ELSE NoRow]]

\* Host permission catalog: auth.Permission rows (codename, content_type).
Permission == {"can_use_thing", "view_user"}
PermCT == [p \in Permission |-> IF p = "view_user" THEN "user" ELSE "thing"]

\* Interned attributes (domain, key, value); all live in the policy domain "D".
Attr(k, v) == [domain |-> "D", key |-> k, value |-> v]
RoleMember == Attr("role", <<"member">>)
HonorDistinguished == Attr("honor", <<"distinguished">>)
AccessExclusive == Attr("access", <<"exclusive">>)
Attribute == {RoleMember, HonorDistinguished, AccessExclusive}

PolicyId == 1..MaxPolicies

VARIABLES
    content_types,   \* Entity.content_types: entity -> set of content types
    deleted_time,    \* Entity.deleted_time IS NOT NULL (soft-deleted)
    attrs,           \* Entity.attrs: entity -> set of attributes
    domains,         \* Entity.domains (reverse of Domain.entities)
    policy,          \* the policy table: id -> row (exists = row is present)
    entitlements,    \* the entitlement table: set of rows
    strict_cycles,   \* configuration: a cycle-creating add raises
    err,             \* outcome of the last mutation: "ok" or the exception
    query,           \* the last has_perm call, if no mutation came after it
    result,          \* what that call returned or raised
    budget,          \* mutations still allowed in this behaviour
    entity_ids,      \* the entity table: ids of the Entity rows
    component,       \* the component tables: entity -> content type -> its row
    attribute_objects \* the attribute table: the interned attributes

store == <<content_types, deleted_time, attrs, domains, policy, entitlements,
           entity_ids, component, attribute_objects>>
vars == <<content_types, deleted_time, attrs, domains, policy, entitlements,
          strict_cycles, err, query, result, budget, entity_ids, component,
          attribute_objects>>

\* The database as one value, so that a handler can be written as a function
\* from the state it reads to the state it leaves.
Store == [content_types |-> content_types, deleted_time |-> deleted_time,
          attrs |-> attrs, domains |-> domains, policy |-> policy,
          entitlements |-> entitlements,
          entity_ids |-> entity_ids, component |-> component,
          attribute_objects |-> attribute_objects]

Ok(S) == [S |-> S, err |-> "ok"]
Raise(S, e) == [S |-> S, err |-> e]

NoPolicy == [exists |-> FALSE, domain |-> "D", label |-> "members_can_use_things",
             source_attrs |-> {}, allow_permissions |-> {}, target_attrs |-> {},
             disabled |-> FALSE]

Entitlement(p, s, perm, t) == [policy |-> p, source |-> s, permission |-> perm, target |-> t]

\* ------------------------------------------------------------ query helpers
\* Entity.objects: the default view hides soft-deleted rows.
EntityObjects(S) == {e \in Entity : S.content_types[e] # {} /\ ~S.deleted_time[e]}
\* Entity.objects.filter(pk__in=pk_set)
EntityObjectsFilter(S, pk_set) == EntityObjects(S) \cap pk_set
\* domain.entities: the related manager is built on the default view
DomainEntities(S, d) == {e \in EntityObjects(S) : d \in S.domains[e]}
\* Policy.objects.filter(pk__in=pk_set)
PolicyObjectsFilter(S, pk_set) == {p \in PolicyId : S.policy[p].exists /\ p \in pk_set}
\* attr.policies_as_source.all() / attr.policies_as_target.all()
policies_as_source(S, a) == {p \in PolicyId : S.policy[p].exists /\ a \in S.policy[p].source_attrs}
policies_as_target(S, a) == {p \in PolicyId : S.policy[p].exists /\ a \in S.policy[p].target_attrs}
\* domain.policies.all()
DomainPolicies(S, d) == {p \in PolicyId : S.policy[p].exists /\ S.policy[p].domain = d}
\* policy.entitlements.all()
PolicyEntitlements(S, p) == {e \in S.entitlements : e.policy = p}

\* sources that may be of any component type
sources_of_every_type(S, p) ==
    {e \in DomainEntities(S, S.policy[p].domain) : S.policy[p].source_attrs \subseteq S.attrs[e]}
\* Policy.sources(): members of the domain that carry a User component and
\* every source attribute.
sources(S, p) ==
    {e \in DomainEntities(S, S.policy[p].domain) :
        /\ "user" \in S.content_types[e]
        /\ S.policy[p].source_attrs \subseteq S.attrs[e]}

\* Policy.targets(): members of the domain that carry every target attribute.
targets(S, p) ==
    {e \in DomainEntities(S, S.policy[p].domain) :
        S.policy[p].target_attrs \subseteq S.attrs[e]}

\* ------------------------------------------------------- Policy (models.py)
\* Entity.content_type: the Entity table has the many-to-many content_types
\* and no content_type column, so reading the attribute raises.
EntityContentType(S, e) == "AttributeError"

\* Policy.create_entitlements(): the first comparison
\* permission.content_type == target.content_type reads Entity.content_type;
\* the loop body is reached iff sources, targets and permissions are all
\* non-empty.  Otherwise bulk_create([]) inserts nothing.
create_entitlements(S, p) ==
    LET reached == {<<s, t, perm>> \in sources(S, p) \X targets(S, p) \X S.policy[p].allow_permissions : TRUE}
        new_entitlements ==
            {Entitlement(p, r[1], r[3], r[2]) : r \in {x \in reached : PermCT[x[3]] = EntityContentType(S, x[2])}}
    IN IF \E r \in reached : EntityContentType(S, r[2]) = "AttributeError"
       THEN Raise(S, "AttributeError")
       ELSE Ok([S EXCEPT !.entitlements = @ \cup new_entitlements])

\* a fallback scan that takes every allowed permission
_extrude_source_unfiltered(S, p, source) ==
    LET references == {<<e.permission, e.target>> : e \in PolicyEntitlements(S, p)}
    IN [err |-> "ok",
        rows |-> IF references = {}
                 THEN {Entitlement(p, source, x[2], x[1]) :
                          x \in targets(S, p) \X S.policy[p].allow_permissions}
                 ELSE {Entitlement(p, source, r[1], r[2]) : r \in references}]
\* Policy._extrude_source(source): the rows to create for a new source.
_extrude_source(S, p, source) ==
    LET references == {<<e.permission, e.target>> : e \in PolicyEntitlements(S, p)}
        scan == {Entitlement(p, source, perm, t) :
                    <<t, perm>> \in {x \in targets(S, p) \X S.policy[p].allow_permissions :
                                        PermCT[x[2]] \in S.content_types[x[1]]}}
    IN [err |-> "ok",
        rows |-> IF references = {} THEN scan
                 ELSE {Entitlement(p, source, r[1], r[2]) : r \in references}]

\* Policy._extrude_target(target): the rows to create for a new target.  The
\* fallback scan takes every allowed permission; the reference loop builds
\* Entitlement(source=<id>), which Django rejects with ValueError.
_extrude_target(S, p, target) ==
    LET references == {<<e.permission, e.source>> :
                          e \in {x \in PolicyEntitlements(S, p) :
                                    PermCT[x.permission] \in S.content_types[target]}}
        scan == {Entitlement(p, s, perm, target) :
                    <<s, perm>> \in sources(S, p) \X S.policy[p].allow_permissions}
    IN IF references = {} THEN [err |-> "ok", rows |-> scan]
       ELSE [err |-> "ValueError", rows |-> {}]

\* One call of an extrude primitive made by a receiver.
Extrude(S, c) ==
    IF c.side = "source" THEN _extrude_source(S, c.policy, c.entity)
    ELSE _extrude_target(S, c.policy, c.entity)
ExtrudeCall(side, p, e) == [side |-> side, policy |-> p, entity |-> e]

\* new_entitlements of a receiver, as the list it is: each element keeps the
\* call that appended it, so that the same row appended twice is seen.
Emitted(S, calls) == UNION {{<<c, row>> : row \in Extrude(S, c).rows} : c \in calls}
EmittedRows(S, calls) == {x[2] : x \in Emitted(S, calls)}
ExtrudeError(S, calls) == \E c \in calls : Extrude(S, c).err # "ok"

\* Entitlement.objects.bulk_create(new_entitlements, ignore_conflicts=...):
\* without ignore_conflicts the unique constraint on
\* (source, permission, target, policy) rejects a row that exists or that
\* is in the batch twice.
bulk_create(S, emitted, ignore_conflicts) ==
    LET rows == {x[2] : x \in emitted}
        conflict == \/ rows \cap S.entitlements # {}
                    \/ \E x, y \in emitted : x # y /\ x[2] = y[2]
    IN IF ~ignore_conflicts /\ conflict THEN Raise(S, "IntegrityError")
       ELSE Ok([S EXCEPT !.entitlements = @ \cup rows])

\* ------------------------------------------------- receivers (signals.py)
\* A receiver gets the instance the manager was called on (side tells whether
\* it is the model named first in the relation) and the primary keys on the
\* other side.

\* on_entity_attribute_change: sender Entity.attrs.through
on_entity_attribute_change(S, action, side, instance, pk_set) ==
    LET entities == IF side = "Entity" THEN {instance} ELSE EntityObjectsFilter(S, pk_set)
        changed_attrs == IF side = "Entity" THEN pk_set ELSE {instance}
        triples == entities \X changed_attrs \X PolicyId
        calls ==
            {ExtrudeCall("source", x[3], x[1]) :
                x \in {y \in triples :
                        /\ y[3] \in policies_as_source(S, y[2])
                        /\ (S.policy[y[3]].source_attrs \ {y[2]}) \subseteq S.attrs[y[1]]}}
            \cup
            {ExtrudeCall("target", x[3], x[1]) :
                x \in {y \in triples :
                        /\ y[3] \in policies_as_target(S, y[2])
                        /\ (S.policy[y[3]].target_attrs \ {y[2]}) \subseteq S.attrs[y[1]]}}
        doomed == {e \in S.entitlements :
                      \E a \in changed_attrs, x \in entities :
                          /\ e.policy \in policies_as_source(S, a) \cup policies_as_target(S, a)
                          /\ (e.source = x \/ e.target = x)}
    IN CASE action = "post_add" ->
                IF ExtrudeError(S, calls) THEN Raise(S, "ValueError")
                ELSE bulk_create(S, Emitted(S, calls), TRUE)
         [] action = "post_remove" ->
                Ok([S EXCEPT !.entitlements = @ \ doomed])
         [] OTHER -> Ok(S)

\* on_policy_allow_permissions_change: sender Policy.allow_permissions.through
on_policy_allow_permissions_change(S, action, side, instance, pk_set) ==
    LET policies == IF side = "Policy" THEN {instance} ELSE PolicyObjectsFilter(S, pk_set)
        permissions == IF side = "Policy" THEN pk_set ELSE {instance}
        pairs == policies \X permissions
        clones(p, perm) ==
            {Entitlement(p, e.source, perm, e.target) :
                e \in {x \in PolicyEntitlements(S, p) : PermCT[perm] \in S.content_types[x.target]}}
        emitted == UNION {{<<x, row>> : row \in clones(x[1], x[2])} : x \in pairs}
        doomed == {e \in S.entitlements : <<e.policy, e.permission>> \in pairs}
    IN CASE action = "post_add" -> bulk_create(S, emitted, FALSE)
         [] action = "post_remove" -> Ok([S EXCEPT !.entitlements = @ \ doomed])
         [] OTHER -> Ok(S)

\* the body of the loop of on_policy_attrs_change (also reset_entitlements):
\* delete the policy's rows, then create_entitlements()
ResetPolicy(S, p) ==
    create_entitlements([S EXCEPT !.entitlements = @ \ PolicyEntitlements(S, p)], p)

RECURSIVE ResetPolicies(_, _)
ResetPolicies(S, policies) ==
    IF policies = {} THEN Ok(S)
    ELSE LET p == CHOOSE x \in policies : \A y \in policies : x <= y
             r == ResetPolicy(S, p)
         IN IF r.err # "ok" THEN r ELSE ResetPolicies(r.S, policies \ {p})

\* on_policy_attrs_change: senders Policy.source_attrs.through and
\* Policy.target_attrs.through
on_policy_attrs_change(S, action, side, instance, pk_set) ==
    LET policies == IF side = "Policy" THEN {instance} ELSE PolicyObjectsFilter(S, pk_set)
    IN IF action \in {"post_add", "post_remove"} THEN ResetPolicies(S, policies)
       ELSE Ok(S)

\* on_entity_domain_change: sender Domain.entities.through.  The removal loop
\* iterates Entity.objects.filter(pk__in=pk_set), whatever the instance is.
on_entity_domain_change(S, action, side, instance, pk_set) ==
    LET entities == IF side = "Entity" THEN {instance} ELSE EntityObjectsFilter(S, pk_set)
        changed_domains == IF side = "Entity" THEN pk_set \cap Domain ELSE {instance}
        calls ==
            {ExtrudeCall("source", x[2], x[1]) :
                x \in {y \in entities \X PolicyId :
                        \E d \in changed_domains :
                            y[2] \in DomainPolicies(S, d) /\ S.policy[y[2]].source_attrs = {}}}
            \cup
            {ExtrudeCall("target", x[2], x[1]) :
                x \in {y \in entities \X PolicyId :
                        \E d \in changed_domains :
                            y[2] \in DomainPolicies(S, d) /\ S.policy[y[2]].target_attrs = {}}}
        doomed == {e \in S.entitlements :
                      \E d \in changed_domains, x \in EntityObjectsFilter(S, pk_set) :
                          /\ S.policy[e.policy].domain = d
                          /\ (e.source = x \/ e.target = x)}
    IN CASE action = "post_add" ->
                IF ExtrudeError(S, calls) THEN Raise(S, "ValueError")
                ELSE bulk_create(S, Emitted(S, calls), FALSE)
         [] action = "post_remove" ->
                Ok([S EXCEPT !.entitlements = @ \ doomed])
         [] OTHER -> Ok(S)

\* no transaction: what was written before the exception stays
Autocommit(S, r) == r
\* A mutation and its receivers share one transaction: an exception undoes
\* whatever was written since S.
Atomic(S, r) == IF r.err = "ok" THEN r ELSE Raise(S, r.err)

\* Policy.QuerySet.reset_entitlements(): each selected policy in a
\* transaction of its own; an exception leaves the loop
RECURSIVE reset_entitlements(_, _)
reset_entitlements(S, policies) ==
    IF policies = {} THEN Ok(S)
    ELSE LET p == CHOOSE x \in policies : \A y \in policies : x <= y
             r == Atomic(S, ResetPolicy(S, p))
         IN IF r.err # "ok" THEN r ELSE reset_entitlements(r.S, policies \ {p})

\* ----------------------------------------- many-to-many managers (Django)
\* add() sends post_add with the keys that were not related yet; remove()
\* sends post_remove with every key it was given.  Both run the write and
\* the receivers in one transaction.

\* adding an attribute to an entity is guarded: the entity must already be a
\* member of the attribute's domain
OutsideOwningDomain(S, e, a) == a.domain \notin S.domains[e]

\* entity.attrs.add(*objs)
entity_attrs_add(S, e, objs) ==
    LET missing == objs \ S.attrs[e]
        S1 == [S EXCEPT !.attrs[e] = @ \cup missing]
    IN IF \E a \in objs : OutsideOwningDomain(S, e, a) THEN Raise(S, "DomainViolation")
       ELSE Atomic(S, on_entity_attribute_change(S1, "post_add", "Entity", e, missing))

\* attribute.entities.add(*objs)
attribute_entities_add(S, a, objs) ==
    LET missing == {e \in objs : a \notin S.attrs[e]}
        S1 == [S EXCEPT !.attrs = [e \in Entity |-> IF e \in missing THEN @[e] \cup {a} ELSE @[e]]]
    IN IF \E e \in objs : OutsideOwningDomain(S, e, a) THEN Raise(S, "DomainViolation")
       ELSE Atomic(S, on_entity_attribute_change(S1, "post_add", "Attribute", a, missing))

\* a removal that sends no post_remove
entity_attrs_remove_unsignalled(S, e, objs) == Ok([S EXCEPT !.attrs[e] = @ \ objs])
\* entity.attrs.remove(*objs)
entity_attrs_remove(S, e, objs) ==
    LET S1 == [S EXCEPT !.attrs[e] = @ \ objs]
    IN Atomic(S, on_entity_attribute_change(S1, "post_remove", "Entity", e, objs))

\* attribute.entities.remove(*objs)
attribute_entities_remove(S, a, objs) ==
    LET S1 == [S EXCEPT !.attrs = [e \in Entity |-> IF e \in objs THEN @[e] \ {a} ELSE @[e]]]
    IN Atomic(S, on_entity_attribute_change(S1, "post_remove", "Attribute", a, objs))

\* ------------------------------------------------------------- Domain DAG
\* domain.subdomains(): the domains that are direct members of d
subdomains(S, d) == {x \in Domain : d \in S.domains[x]}
\* domain.superdomains(): the domains d is a direct member of
superdomains(S, d) == S.domains[d] \cap Domain

RECURSIVE SubdomainClosure(_, _)
SubdomainClosure(S, ds) ==
    LET next == ds \cup UNION {subdomains(S, d) : d \in ds}
    IN IF next = ds THEN ds ELSE SubdomainClosure(S, next)

\* domain.has_subdomain_recursive(candidate): reflexive transitive closure
has_subdomain_recursive(S, d, candidate) == candidate \in SubdomainClosure(S, {d})

\* a cycle rule that looks at self-membership only
CreatesCycleSelfOnly(S, member, d) == member \in Domain /\ member = d
\* the cycle rule, applied to every attempt to add member to domain d
CreatesCycle(S, member, d) == member \in Domain /\ has_subdomain_recursive(S, member, d)

\* an add that applies the cycle rule in strict mode only
domain_entities_add_lenient_unfiltered(S, strict, d, objs) ==
    LET offending == {e \in objs : CreatesCycle(S, e, d)}
        missing == {e \in objs : d \notin S.domains[e]}
        S1 == [S EXCEPT !.domains = [e \in Entity |-> IF e \in missing THEN @[e] \cup {d} ELSE @[e]]]
    IN IF strict /\ offending # {} THEN Raise(S, "CycleViolation")
       ELSE Atomic(S, on_entity_domain_change(S1, "post_add", "Domain", d, missing))
\* domain.entities.add(*objs)
domain_entities_add(S, strict, d, objs) ==
    LET offending == {e \in objs : CreatesCycle(S, e, d)}
        missing == {e \in objs \ offending : d \notin S.domains[e]}
        S1 == [S EXCEPT !.domains = [e \in Entity |-> IF e \in missing THEN @[e] \cup {d} ELSE @[e]]]
    IN IF strict /\ offending # {} THEN Raise(S, "CycleViolation")
       ELSE Atomic(S, on_entity_domain_change(S1, "post_add", "Domain", d, missing))

\* entity.domains.add(*objs)
entity_domains_add(S, strict, e, objs) ==
    LET offending == {d \in objs : CreatesCycle(S, e, d)}
        missing == (objs \ offending) \ S.domains[e]
        S1 == [S EXCEPT !.domains[e] = @ \cup missing]
    IN IF strict /\ offending # {} THEN Raise(S, "CycleViolation")
       ELSE Atomic(S, on_entity_domain_change(S1, "post_add", "Entity", e, missing))

\* domain.entities.remove(*objs)
domain_entities_remove(S, d, objs) ==
    LET S1 == [S EXCEPT !.domains = [e \in Entity |-> IF e \in objs THEN @[e] \ {d} ELSE @[e]]]
    IN Atomic(S, on_entity_domain_change(S1, "post_remove", "Domain", d, objs))

\* entity.domains.remove(*objs)
entity_domains_remove(S, e, objs) ==
    LET S1 == [S EXCEPT !.domains[e] = @ \ objs]
    IN Atomic(S, on_entity_domain_change(S1, "post_remove", "Entity", e, objs))

\* ------------------------------------------------- component API (ontology)
\* component.add_attr(domain, key, value): guarded by domain membership
add_attr(S, e, a) ==
    IF OutsideOwningDomain(S, e, a) THEN Raise(S, "DomainViolation")
    ELSE entity_attrs_add(S, e, {a})

\* component.remove_attr(domain, key, value)
remove_attr(S, e, a) == entity_attrs_remove(S, e, {a})

\* component.add_to_domain(domain)
add_to_domain(S, strict, e, d) == domain_entities_add(S, strict, d, {e})

\* the domains reached from ds by walking up through superdomains
RECURSIVE SuperdomainClosure(_, _)
SuperdomainClosure(S, ds) ==
    LET next == ds \cup UNION {superdomains(S, d) : d \in ds}
    IN IF next = ds THEN ds ELSE SuperdomainClosure(S, next)

\* a recursive membership test that climbs one level only
is_in_domain_one_level(S, e, d, recursive) ==
    IF ~recursive THEN d \in S.domains[e]
    ELSE d \in S.domains[e] \cup UNION {superdomains(S, x) : x \in S.domains[e] \cap Domain}
\* component.is_in_domain(domain, recursive=False): direct membership, or
\* membership of a domain that lies below the given one
is_in_domain(S, e, d, recursive) ==
    IF ~recursive THEN d \in S.domains[e]
    ELSE d \in SuperdomainClosure(S, S.domains[e] \cap Domain)

\* a removal that leaves the entity's attributes alone
remove_from_domain_keeping_attrs(S, e, d) == domain_entities_remove(S, d, {e})
\* component.remove_from_domain(domain): leaves the domain and drops every
\* attribute of the entity that belongs to the domain
remove_from_domain(S, e, d) ==
    LET r == domain_entities_remove(S, d, {e})
        owned == {a \in r.S.attrs[e] : a.domain = d}
    IN IF r.err # "ok" \/ owned = {} THEN r
       ELSE Atomic(S, entity_attrs_remove(r.S, e, owned))

\* component.delete(): soft delete of the entity; queryset.undelete()
soft_delete(S, e) == Ok([S EXCEPT !.deleted_time[e] = TRUE])
undelete(S, e) == Ok([S EXCEPT !.deleted_time[e] = FALSE])

\* ------------------------------------------------------ component lifecycle
\* ArchiveManager: every row of the component table
objects_archive(S, ct) == {e \in Entity : S.component[e][ct] # NoRow}
\* Manager.get_queryset: filter(deleted_time__isnull=True)
objects(S, ct) == {e \in objects_archive(S, ct) : S.component[e][ct] = 0}
\* Entity.objects_archive.get(pk=...)
Entity_get(S, e) == IF e \in S.entity_ids THEN "ok" ELSE "DoesNotExist"

\* entity.delete(): the row goes, and with it every row that refers to it
\* with on_delete=CASCADE (components, a domain's attributes and policies,
\* entitlements) and the entity's m2m rows; no m2m receiver runs
Entity_delete(S, e) ==
    LET gone == {p \in PolicyId : S.policy[p].exists /\ S.policy[p].domain = e} IN
    [S EXCEPT
       !.entity_ids = @ \ {e},
       !.component[e] = [ct \in ContentType |-> NoRow],
       !.content_types[e] = {},
       !.deleted_time[e] = FALSE,
       !.attrs = [x \in Entity |-> IF x = e THEN {} ELSE {a \in @[x] : a.domain # e}],
       !.attribute_objects = {a \in @ : a.domain # e},
       !.domains = [x \in Entity |-> IF x = e THEN {} ELSE @[x] \ {e}],
       !.policy = [p \in PolicyId |-> IF p \in gone THEN NoPolicy ELSE @[p]],
       !.entitlements = {r \in @ : r.source # e /\ r.target # e /\ r.policy \notin gone}]
\* Model.delete() of the component row itself
Model_delete(S, e, ct) == [S EXCEPT !.component[e][ct] = NoRow]

\* a hard delete that forgets the entity and removes the row alone
EntityModel_delete_own_row(S, e, ct, hard_delete, now) ==
    IF hard_delete THEN Ok(Model_delete(S, e, ct))
    ELSE IF S.component[e][ct] # 0 THEN Ok([S EXCEPT !.component[e][ct] = now])
    ELSE Ok(S)
\* EntityModel.delete(hard_delete): the hard branch deletes the entity and
\* then the row; the soft branch stamps deleted_time when it is already set
\* and does nothing when it is NULL
EntityModel_delete(S, e, ct, hard_delete, now) ==
    IF hard_delete THEN Ok(Model_delete(Entity_delete(S, e), e, ct))
    ELSE IF S.component[e][ct] # 0 THEN Ok([S EXCEPT !.component[e][ct] = now])
    ELSE Ok(S)

\* an isolated delete that takes the whole entity with it
delete_isolated_cascading(S, e, ct, hard_delete, now) ==
    IF hard_delete THEN Ok(Entity_delete(S, e))
    ELSE Ok([S EXCEPT !.component[e][ct] = IF @ = 0 THEN now ELSE @])
\* component.delete(isolated=True): this component alone is removed, or
\* marked deleted; the entity keeps its other components
delete_isolated(S, e, ct, hard_delete, now) ==
    IF hard_delete
    THEN Ok([S EXCEPT !.component[e][ct] = NoRow, !.content_types[e] = @ \ {ct}])
    ELSE Ok([S EXCEPT !.component[e][ct] = IF @ = 0 THEN now ELSE @])
\* component.delete(hard_delete=False, isolated=False)
ComponentModel_delete(S, e, ct, hard_delete, isolated, now) ==
    IF isolated THEN delete_isolated(S, e, ct, hard_delete, now)
    ELSE EntityModel_delete(S, e, ct, hard_delete, now)

\* queryset.delete(hard_delete): the single-row delete on every row
RECURSIVE queryset_delete(_, _, _, _, _)
queryset_delete(S, rows, ct, hard_delete, now) ==
    IF rows = {} THEN Ok(S)
    ELSE LET e == CHOOSE x \in rows : TRUE
             r == ComponentModel_delete(S, e, ct, hard_delete, FALSE, now)
         IN  queryset_delete(r.S, rows \ {e}, ct, hard_delete, now)
\* queryset.undelete(): every row of the queryset is live again
queryset_undelete(S, rows, ct) ==
    Ok([S EXCEPT !.component =
           [e \in Entity |-> IF e \in rows /\ @[e][ct] # NoRow
                             THEN [@[e] EXCEPT ![ct] = 0] ELSE @[e]]])

NotFound == [err |-> "DoesNotExist", row |-> <<>>]
\* a cast that reads the archive
cast_from_archive(S, e, ct) ==
    IF e \in objects_archive(S, ct) THEN [err |-> "ok", row |-> <<e, ct>>] ELSE NotFound
\* component.cast(type): the entity's component of that type in the default
\* view, or DoesNotExist
cast(S, e, ct) ==
    IF e \in objects(S, ct) THEN [err |-> "ok", row |-> <<e, ct>>] ELSE NotFound
\* Model.objects.create(...) with no entity: save() of a row that is being
\* added creates the entity, which then carries the type of the row
create(S, ct) ==
    LET e == CHOOSE x \in Plain \ S.entity_ids : TRUE
    IN  Ok([S EXCEPT !.entity_ids = @ \cup {e},
                     !.component[e][ct] = 0,
                     !.content_types[e] = @ \cup {ct}])
\* a creation that takes the place of the component that is there
create_component_replacing(S, e, ct) ==
    IF e \notin S.entity_ids THEN Raise(S, "IntegrityError")
    ELSE Ok([S EXCEPT !.component[e][ct] = 0, !.content_types[e] = @ \cup {ct}])
\* Model.objects.create(entity=e, ...): a second component of a type meets
\* the primary key of the first
create_component(S, e, ct) ==
    IF e \notin S.entity_ids \/ S.component[e][ct] # NoRow THEN Raise(S, "IntegrityError")
    ELSE Ok([S EXCEPT !.component[e][ct] = 0, !.content_types[e] = @ \cup {ct}])

\* ------------------------------------------------------ strings (str.split)
\* A string is its sequence of tokens; "." and ":" are the separators.
RECURSIVE split(_, _)
split(str, sep) ==
    IF \A i \in 1..Len(str) : str[i] # sep THEN <<str>>
    ELSE LET i == CHOOSE j \in 1..Len(str) : str[j] = sep /\ \A k \in 1..(j - 1) : str[k] # sep
         IN <<SubSeq(str, 1, i - 1)>> \o split(SubSeq(str, i + 1, Len(str)), sep)

RECURSIVE join(_, _)
join(sep, parts) ==
    IF parts = <<>> THEN <<>>
    ELSE IF Len(parts) = 1 THEN parts[1]
    ELSE parts[1] \o <<sep>> \o join(sep, Tail(parts))

\* the strings the callers pass
AttrStrs == {<<"role", ":", "member">>, <<"honor", ":", "distinguished">>,
             <<"access", ":", "exclusive">>}
PermStrs == {<<"testapp", ".", "can_use_thing">>,
             <<"ontology_auth", ".", "view_user">>, <<"ontology_auth", ".", "can_use_thing">>,
             <<"can_use_thing">>, <<"testapp", ".", "can_use_thing", ".", "x">>}

\* Attribute.objects.get_or_create(domain=domain, key=tokens[0], value=':'.join(tokens[1:]))
attr_from_str(domain, str) ==
    LET tokens == split(str, ":")
    IN [domain |-> domain, key |-> tokens[1][1], value |-> join(":", Tail(tokens))]

\* Permission rows with this codename under this app label
PermissionLookup(app, codename) ==
    {p \in Permission : <<p>> = codename /\ <<app_label[PermCT[p]]>> = app}

\* --------------------------------------------------- Policy manager and save
\* Policy.save(): the row write and create_entitlements() in one transaction
policy_save(S, p, row) ==
    LET clash == \E q \in PolicyId \ {p} :
                    S.policy[q].exists /\ S.policy[q].domain = row.domain /\ S.policy[q].label = row.label
        S1 == [S EXCEPT !.policy[p] = row]
    IN IF clash THEN Raise(S, "IntegrityError")
       ELSE Atomic(S, create_entitlements(S1, p))

\* policy.source_attrs / policy.target_attrs: add and remove from either side
policy_attrs_change(S, field, action, side, instance, objs) ==
    LET policies == IF side = "Policy" THEN {instance} ELSE objs
        changed == IF side = "Policy" THEN objs ELSE {instance}
        had(p) == IF field = "source_attrs" THEN S.policy[p].source_attrs ELSE S.policy[p].target_attrs
        new(p) == IF action = "post_add" THEN had(p) \cup changed ELSE had(p) \ changed
        S1 == [S EXCEPT !.policy = [p \in PolicyId |->
                    IF p \notin policies THEN @[p]
                    ELSE IF field = "source_attrs" THEN [@[p] EXCEPT !.source_attrs = new(p)]
                    ELSE [@[p] EXCEPT !.target_attrs = new(p)]]]
        pk_set == IF action = "post_remove" THEN objs
                  ELSE IF side = "Policy" THEN objs \ had(instance)
                  ELSE {p \in objs : instance \notin had(p)}
    IN Atomic(S, on_policy_attrs_change(S1, action, side, instance, pk_set))

\* policy.allow_permissions: add and remove from either side
policy_allow_permissions_change(S, action, side, instance, objs) ==
    LET policies == IF side = "Policy" THEN {instance} ELSE objs
        changed == IF side = "Policy" THEN objs ELSE {instance}
        had(p) == S.policy[p].allow_permissions
        S1 == [S EXCEPT !.policy = [p \in PolicyId |->
                    IF p \notin policies THEN @[p]
                    ELSE [@[p] EXCEPT !.allow_permissions =
                            IF action = "post_add" THEN had(p) \cup changed ELSE had(p) \ changed]]]
        pk_set == IF action = "post_remove" THEN objs
                  ELSE IF side = "Policy" THEN objs \ had(instance)
                  ELSE {p \in objs : instance \notin had(p)}
    IN Atomic(S, on_policy_allow_permissions_change(S1, action, side, instance, pk_set))

\* Policy.objects.create_from_strs(domain, label, source_attr_strs, perm_strs,
\* target_attr_strs).  The attributes are interned first, each get_or_create
\* committing on its own; then the permissions are looked up, the policy is
\* created and the three sets are added, with no transaction around them.
\* add() of no objects returns before any signal.
create_from_strs(S, p, domain, label, source_attr_strs, perm_strs, target_attr_strs) ==
    LET source_attrs == {attr_from_str(domain, str) : str \in source_attr_strs}
        target_attrs == {attr_from_str(domain, str) : str \in target_attr_strs}
        S0 == [S EXCEPT !.attribute_objects = @ \cup source_attrs \cup target_attrs]
        parts == [str \in perm_strs |-> split(str, ".")]
        found == [str \in perm_strs |-> IF Len(parts[str]) = 2
                                         THEN PermissionLookup(parts[str][1], parts[str][2]) ELSE {}]
        allow_permissions == UNION {found[str] : str \in perm_strs}
        r1 == policy_save(S0, p, [NoPolicy EXCEPT !.exists = TRUE, !.domain = domain, !.label = label])
        r2 == IF r1.err # "ok" \/ source_attrs = {} THEN r1
              ELSE policy_attrs_change(r1.S, "source_attrs", "post_add", "Policy", p, source_attrs)
        r3 == IF r2.err # "ok" \/ target_attrs = {} THEN r2
              ELSE policy_attrs_change(r2.S, "target_attrs", "post_add", "Policy", p, target_attrs)
        r4 == IF r3.err # "ok" \/ allow_permissions = {} THEN r3
              ELSE policy_allow_permissions_change(r3.S, "post_add", "Policy", p, allow_permissions)
    IN IF \E str \in perm_strs : Len(parts[str]) # 2 THEN Raise(S0, "ValueError")
       ELSE IF \E str \in perm_strs : found[str] = {} THEN Raise(S0, "DoesNotExist")
       ELSE r4

\* ------------------------------------------ has_perm (backends.py)
\* The values a caller can pass as user_obj and obj.
Component(e) == [kind |-> "component", entity |-> e]
EntityObj(e) == [kind |-> "entity", entity |-> e]
None == [kind |-> "none", entity |-> "-"]
Other == [kind |-> "other", entity |-> "-"]

Returns(b) == [raised |-> "no", value |-> b]
Raises(e) == [raised |-> e, value |-> FALSE]

\* a query that does not look at deleted_time
has_perm_ignoring_deleted(S, user_obj, perm, obj) ==
    IF obj = None THEN Returns(FALSE)
    ELSE IF obj.kind \notin {"component", "entity"} THEN Returns(FALSE)
    ELSE IF user_obj.kind # "component" THEN Raises("AttributeError")
    ELSE LET parts == split(perm, ".")
         IN IF Len(parts) # 2 THEN Raises("ValueError")
            ELSE Returns(\E e \in S.entitlements :
                    /\ e.source = user_obj.entity
                    /\ e.target = obj.entity
                    /\ <<e.permission>> = parts[2]
                    /\ <<app_label[PermCT[e.permission]]>> = parts[1]
                    /\ ~S.policy[e.policy].disabled)
\* DomainAuthorizationBackend.has_perm(user_obj, perm, obj)
has_perm(S, user_obj, perm, obj) ==
    IF obj = None THEN Returns(FALSE)
    ELSE IF obj.kind \notin {"component", "entity"} THEN Returns(FALSE)
    ELSE IF user_obj.kind # "component" THEN Raises("AttributeError")
    ELSE LET target == obj.entity
             source == user_obj.entity
             parts == split(perm, ".")
         IN IF Len(parts) # 2 THEN Raises("ValueError")
            ELSE Returns(\E e \in S.entitlements :
                    /\ e.source = source
                    /\ e.target = target
                    /\ <<e.permission>> = parts[2]
                    /\ <<app_label[PermCT[e.permission]]>> = parts[1]
                    /\ ~S.deleted_time[e.source]
                    /\ ~S.deleted_time[e.target]
                    /\ ~S.policy[e.policy].disabled)

\* ------------------------------------------------------------------ actions
Batch(X) == {objs \in SUBSET X : Cardinality(objs) >= 1 /\ Cardinality(objs) <= MaxBatch}

NoQuery == <<>>
NoResult == Returns(FALSE)

Commit(r) ==
    /\ content_types' = r.S.content_types
    /\ deleted_time' = r.S.deleted_time
    /\ attrs' = r.S.attrs
    /\ domains' = r.S.domains
    /\ policy' = r.S.policy
    /\ entitlements' = r.S.entitlements
    /\ entity_ids' = r.S.entity_ids
    /\ component' = r.S.component
    /\ attribute_objects' = r.S.attribute_objects
    /\ err' = r.err

\* one attempted mutation; a behaviour that queries ends with its query
Apply(r) ==
    /\ budget > 0
    /\ query = NoQuery
    /\ budget' = budget - 1
    /\ Commit(r)
    /\ query' = NoQuery
    /\ result' = NoResult
    /\ UNCHANGED strict_cycles

PolicyDomain == {"D"}
Existing == {p \in PolicyId : policy[p].exists}

EntityAttrsAdd ==
    \E e \in Plain, objs \in Batch(Attribute) : Apply(entity_attrs_add(Store, e, objs))
AttributeEntitiesAdd ==
    \E a \in Attribute, objs \in Batch(Plain) : Apply(attribute_entities_add(Store, a, objs))
EntityAttrsRemove ==
    \E e \in Plain, objs \in Batch(Attribute) : Apply(entity_attrs_remove(Store, e, objs))
AttributeEntitiesRemove ==
    \E a \in Attribute, objs \in Batch(Plain) : Apply(attribute_entities_remove(Store, a, objs))
AddAttr ==
    \E e \in Plain, a \in Attribute : Apply(add_attr(Store, e, a))
DomainEntitiesAdd ==
    \E d \in PolicyDomain, objs \in Batch(Plain) : Apply(domain_entities_add(Store, strict_cycles, d, objs))
EntityDomainsAdd ==
    \E e \in Plain, objs \in Batch(PolicyDomain) : Apply(entity_domains_add(Store, strict_cycles, e, objs))
DomainEntitiesRemove ==
    \E d \in PolicyDomain, objs \in Batch(Plain) : Apply(domain_entities_remove(Store, d, objs))
EntityDomainsRemove ==
    \E e \in Plain, objs \in Batch(PolicyDomain) : Apply(entity_domains_remove(Store, e, objs))
RemoveFromDomain ==
    \E e \in Plain, d \in PolicyDomain : Apply(remove_from_domain(Store, e, d))
SoftDelete ==
    \E e \in Plain : ~deleted_time[e] /\ Apply(soft_delete(Store, e))
Undelete ==
    \E e \in Plain : deleted_time[e] /\ Apply(undelete(Store, e))

\* the policies the callers author:
\* <<label, source_attr_strs, perm_strs, target_attr_strs>>
PolicyShapes ==
    { <<"members_can_use_things",
        {<<"role", ":", "member">>}, {<<"testapp", ".", "can_use_thing">>}, {}>>,
      <<"distinguished_members_can_use_certain_things",
        {<<"role", ":", "member">>, <<"honor", ":", "distinguished">>},
        {<<"testapp", ".", "can_use_thing">>}, {<<"access", ":", "exclusive">>}>>,
      <<"everyone",
        {}, {<<"testapp", ".", "can_use_thing">>, <<"ontology_auth", ".", "view_user">>}, {}>>,
      <<"no_separator", {<<"role", ":", "member">>}, {<<"can_use_thing">>}, {}>>,
      <<"wrong_app", {<<"role", ":", "member">>}, {<<"ontology_auth", ".", "can_use_thing">>}, {}>> }

PolicyCreateFromStrs ==
    \E d \in PolicyDomain, shape \in PolicyShapes :
        /\ PolicyId \ Existing # {}
        /\ LET p == CHOOSE x \in PolicyId \ Existing : \A y \in PolicyId \ Existing : x <= y
           IN Apply(create_from_strs(Store, p, d, shape[1], shape[2], shape[3], shape[4]))
PolicySave ==
    \E p \in Existing, disabled \in BOOLEAN :
        Apply(policy_save(Store, p, [policy[p] EXCEPT !.disabled = disabled]))
PolicyAttrsChange ==
    \E field \in {"source_attrs", "target_attrs"}, action \in {"post_add", "post_remove"},
       p \in Existing, a \in Attribute :
        \/ Apply(policy_attrs_change(Store, field, action, "Policy", p, {a}))
        \/ Apply(policy_attrs_change(Store, field, action, "Attribute", a, {p}))
PolicyAllowPermissionsChange ==
    \E action \in {"post_add", "post_remove"}, p \in Existing, perm \in Permission :
        \/ Apply(policy_allow_permissions_change(Store, action, "Policy", p, {perm}))
        \/ Apply(policy_allow_permissions_change(Store, action, "Permission", perm, {p}))

Subjects == {Component("U"), EntityObj("U"), Other}
Objects == {Component("T"), Component("U"), EntityObj("T"), None, Other}
HasPerm ==
    \E user_obj \in Subjects, perm \in PermStrs, obj \in Objects :
        /\ query = NoQuery
        /\ query' = <<user_obj, perm, obj>>
        /\ result' = has_perm(Store, user_obj, perm, obj)
        /\ UNCHANGED <<store, strict_cycles, err, budget>>

\* ------------------------------------------------------------ specifications
\* States before any policy is authored: the entities have joined the policy
\* domain, the user holds any attributes of it and each thing may hold the
\* target attribute; with no policy the receivers have written nothing.
InitStore ==
    /\ content_types = InitialContentTypes
    /\ entity_ids = Entity
    /\ component = Rows(content_types)
    /\ attribute_objects = Attribute
    /\ deleted_time = [e \in Entity |-> FALSE]
    /\ domains = [e \in Entity |-> IF e \in Plain THEN PolicyDomain ELSE {}]
    /\ attrs \in [Entity -> SUBSET Attribute]
    /\ \A e \in Entity : \A a \in attrs[e] : a.domain \in domains[e]
    /\ \A e \in Plain : "user" \notin content_types[e] => attrs[e] \subseteq {AccessExclusive}
    /\ policy = [p \in PolicyId |-> NoPolicy]
    /\ entitlements = {}
    /\ err = "ok"
    /\ query = NoQuery
    /\ result = NoResult

\* the configuration the tests run under: a cycle-creating add raises nothing
DefaultStrictCyclesOn == TRUE
DefaultStrictCycles == FALSE

Init == InitStore /\ strict_cycles = DefaultStrictCycles /\ budget = MaxOps

Next ==
    \/ EntityAttrsAdd \/ AttributeEntitiesAdd \/ EntityAttrsRemove \/ AttributeEntitiesRemove
    \/ AddAttr
    \/ DomainEntitiesAdd \/ EntityDomainsAdd \/ DomainEntitiesRemove \/ EntityDomainsRemove
    \/ RemoveFromDomain
    \/ SoftDelete \/ Undelete
    \/ PolicyCreateFromStrs \/ PolicySave \/ PolicyAttrsChange \/ PolicyAllowPermissionsChange

Spec == Init /\ [][Next]_vars

\* Authorization queries after a few mutations of the store.
InitQuery ==
    /\ InitStore
    /\ \A e \in Plain : "user" \notin content_types[e] => attrs[e] = {}
    /\ strict_cycles = DefaultStrictCycles
    /\ budget = MaxQueryOps
NextQuery ==
    \/ AddAttr \/ EntityAttrsRemove
    \/ DomainEntitiesAdd \/ RemoveFromDomain
    \/ SoftDelete \/ Undelete
    \/ PolicyCreateFromStrs \/ PolicySave
    \/ HasPerm
SpecQuery == InitQuery /\ [][NextQuery]_vars

\* The domain hierarchy alone: domains (and one plain entity) join and leave
\* domains, from either side of the relation, singly or in batches.
DagEntity == Domain \cup {"U"}
DagBatch(X) == {objs \in SUBSET X : Cardinality(objs) >= 1 /\ Cardinality(objs) <= MaxDagBatch}
DagDomainEntitiesAdd ==
    \E d \in Domain, objs \in DagBatch(DagEntity) : Apply(domain_entities_add(Store, strict_cycles, d, objs))
DagEntityDomainsAdd ==
    \E e \in DagEntity, objs \in DagBatch(Domain) : Apply(entity_domains_add(Store, strict_cycles, e, objs))
DagDomainEntitiesRemove ==
    \E d \in Domain, objs \in DagBatch(DagEntity) : Apply(domain_entities_remove(Store, d, objs))
DagEntityDomainsRemove ==
    \E e \in DagEntity, objs \in DagBatch(Domain) : Apply(entity_domains_remove(Store, e, objs))
DagRemoveFromDomain ==
    \E e \in DagEntity, d \in Domain : Apply(remove_from_domain(Store, e, d))

InitDag ==
    /\ content_types = InitialContentTypes
    /\ entity_ids = Entity
    /\ component = Rows(content_types)
    /\ attribute_objects = Attribute
    /\ deleted_time = [e \in Entity |-> FALSE]
    /\ domains = [e \in Entity |-> {}]
    /\ attrs = [e \in Entity |-> {}]
    /\ policy = [p \in PolicyId |-> NoPolicy]
    /\ entitlements = {}
    /\ err = "ok"
    /\ query = NoQuery
    /\ result = NoResult
    /\ strict_cycles \in BOOLEAN
    /\ budget = MaxDagOps
NextDag ==
    \/ DagDomainEntitiesAdd \/ DagEntityDomainsAdd
    \/ DagDomainEntitiesRemove \/ DagEntityDomainsRemove
    \/ DagRemoveFromDomain
SpecDag == InitDag /\ [][NextDag]_vars

\* Memberships and attributes through the component API alone, over two
\* domains, with a policy possibly authored on the way.
MaxMemberOps == 5
SubRoleMember == [domain |-> "SD", key |-> "role", value |-> <<"member">>]
MemberDomain == {"D", "SD"}
MemberEntity == {"U", "T"}
MemberAttribute == {RoleMember, AccessExclusive, SubRoleMember}
MemberAddToDomain ==
    \E e \in MemberEntity, d \in MemberDomain : Apply(add_to_domain(Store, strict_cycles, e, d))
MemberAddAttr ==
    \E e \in MemberEntity, a \in MemberAttribute : Apply(add_attr(Store, e, a))
MemberRemoveAttr ==
    \E e \in MemberEntity, a \in MemberAttribute : Apply(remove_attr(Store, e, a))
MemberRemoveFromDomain ==
    \E e \in MemberEntity, d \in MemberDomain : Apply(remove_from_domain(Store, e, d))
InitMember ==
    /\ content_types = InitialContentTypes
    /\ entity_ids = Entity
    /\ component = Rows(content_types)
    /\ attribute_objects = MemberAttribute
    /\ deleted_time = [e \in Entity |-> FALSE]
    /\ domains = [e \in Entity |-> {}]
    /\ attrs = [e \in Entity |-> {}]
    /\ policy = [p \in PolicyId |-> NoPolicy]
    /\ entitlements = {}
    /\ err = "ok"
    /\ query = NoQuery
    /\ result = NoResult
    /\ strict_cycles = DefaultStrictCycles
    /\ budget = MaxMemberOps
NextMember ==
    \/ MemberAddToDomain \/ MemberAddAttr \/ MemberRemoveAttr \/ MemberRemoveFromDomain
    \/ PolicyCreateFromStrs
SpecMember == InitMember /\ [][NextMember]_vars

\* Component lifecycle: a composite entity (a user that is also a thing, as
\* person_user of the tests is a person and a user) and a plain thing are
\* deleted, undeleted and recreated, singly and by queryset.
MaxLifeOps == 3
LifeEntity == {"U", "T"}
LifeType == {"user", "thing"}
\* timezone.now(): later at every call
Now == MaxLifeOps + 1 - budget
LifeDelete ==
    \E e \in LifeEntity, ct \in LifeType, hard_delete \in BOOLEAN, isolated \in BOOLEAN :
        /\ component[e][ct] # NoRow
        /\ Apply(ComponentModel_delete(Store, e, ct, hard_delete, isolated, Now))
LifeQuerysetDelete ==
    \E ct \in LifeType, hard_delete \in BOOLEAN, archive \in BOOLEAN :
        Apply(queryset_delete(Store, IF archive THEN objects_archive(Store, ct)
                                     ELSE objects(Store, ct), ct, hard_delete, Now))
LifeQuerysetUndelete ==
    \E ct \in LifeType, rows \in SUBSET LifeEntity :
        /\ rows \subseteq objects_archive(Store, ct)
        /\ Apply(queryset_undelete(Store, rows, ct))
LifeCreateComponent ==
    \E e \in LifeEntity, ct \in LifeType : Apply(create_component(Store, e, ct))
LifeCreate ==
    \E ct \in LifeType : Plain \ entity_ids # {} /\ Apply(create(Store, ct))
LifeAddToDomain ==
    \E e \in LifeEntity : e \in entity_ids /\ Apply(add_to_domain(Store, strict_cycles, e, "D"))
LifeAddAttr ==
    \E e \in LifeEntity : e \in entity_ids /\ Apply(add_attr(Store, e, RoleMember))
InitLife ==
    /\ content_types = [InitialContentTypes EXCEPT !["U"] = {"user", "thing"}, !["V"] = {}]
    /\ entity_ids = Entity \ {"V"}
    /\ component = Rows(content_types)
    /\ attribute_objects = Attribute
    /\ deleted_time = [e \in Entity |-> FALSE]
    /\ domains = [e \in Entity |-> {}]
    /\ attrs = [e \in Entity |-> {}]
    /\ policy = [p \in PolicyId |-> NoPolicy]
    /\ entitlements = {}
    /\ err = "ok"
    /\ query = NoQuery
    /\ result = NoResult
    /\ strict_cycles = DefaultStrictCycles
    /\ budget = MaxLifeOps
NextLife ==
    \/ LifeDelete \/ LifeQuerysetDelete \/ LifeQuerysetUndelete \/ LifeCreateComponent
    \/ LifeCreate
    \/ LifeAddToDomain \/ LifeAddAttr
SpecLife == InitLife /\ [][NextLife]_vars

\* Policies authored from strings in a domain whose attributes are not
\* interned yet; members take the attributes that are.
MaxCreateOps == 4
CreateAddAttr ==
    \E e \in Plain, a \in Attribute : a \in attribute_objects /\ Apply(add_attr(Store, e, a))
InitCreate ==
    /\ content_types = InitialContentTypes
    /\ entity_ids = Entity
    /\ component = Rows(content_types)
    /\ attribute_objects = {}
    /\ deleted_time = [e \in Entity |-> FALSE]
    /\ domains = [e \in Entity |-> IF e \in Plain THEN PolicyDomain ELSE {}]
    /\ attrs = [e \in Entity |-> {}]
    /\ policy = [p \in PolicyId |-> NoPolicy]
    /\ entitlements = {}
    /\ err = "ok"
    /\ query = NoQuery
    /\ result = NoResult
    /\ strict_cycles = DefaultStrictCycles
    /\ budget = MaxCreateOps
ResetEntitlements ==
    \E policies \in SUBSET Existing : Apply(reset_entitlements(Store, policies))
NextCreate ==
    \/ PolicyCreateFromStrs \/ CreateAddAttr \/ RemoveFromDomain \/ PolicySave
    \/ ResetEntitlements
SpecCreate == InitCreate /\ [][NextCreate]_vars

\* The receivers at work: three members of the policy domain that hold no
\* attribute yet, one policy authored from strings, and every mutation that
\* sends a signal, from either side of its relation.
MaxPropOps == 4
InitProp ==
    /\ content_types = InitialContentTypes
    /\ entity_ids = Entity
    /\ component = Rows(content_types)
    /\ attribute_objects = Attribute
    /\ deleted_time = [e \in Entity |-> FALSE]
    /\ domains = [e \in Entity |-> IF e \in Plain THEN PolicyDomain ELSE {}]
    /\ attrs = [e \in Entity |-> {}]
    /\ policy = [p \in PolicyId |-> NoPolicy]
    /\ entitlements = {}
    /\ err = "ok"
    /\ query = NoQuery
    /\ result = NoResult
    /\ strict_cycles = DefaultStrictCycles
    /\ budget = MaxPropOps
NextProp ==
    \/ EntityAttrsAdd \/ AttributeEntitiesAdd \/ EntityAttrsRemove \/ AttributeEntitiesRemove
    \/ DomainEntitiesAdd \/ EntityDomainsAdd \/ DomainEntitiesRemove \/ EntityDomainsRemove
    \/ SoftDelete \/ Undelete
    \/ PolicyCreateFromStrs \/ PolicySave \/ PolicyAttrsChange \/ PolicyAllowPermissionsChange
SpecProp == InitProp /\ [][NextProp]_vars

\* A policy domain with a subdomain: SD is a member of D, the user and one
\* thing are members of D, and entities join SD and join or leave D while a
\* policy of D is authored and attributes are given.
MaxSubOps == 4
SubJoin ==
    \E e \in Plain : Apply(add_to_domain(Store, strict_cycles, e, "SD"))
InitSub ==
    /\ content_types = InitialContentTypes
    /\ entity_ids = Entity
    /\ component = Rows(content_types)
    /\ attribute_objects = Attribute
    /\ deleted_time = [e \in Entity |-> FALSE]
    /\ domains = [e \in Entity |-> IF e \in {"U", "T", "SD"} THEN {"D"} ELSE {}]
    /\ attrs = [e \in Entity |-> {}]
    /\ policy = [p \in PolicyId |-> NoPolicy]
    /\ entitlements = {}
    /\ err = "ok"
    /\ query = NoQuery
    /\ result = NoResult
    /\ strict_cycles = DefaultStrictCycles
    /\ budget = MaxSubOps
NextSub ==
    \/ SubJoin \/ DomainEntitiesAdd \/ EntityDomainsRemove \/ RemoveFromDomain
    \/ AddAttr \/ PolicyCreateFromStrs
SpecSub == InitSub /\ [][NextSub]_vars

\* ======================================================================
\* Claims
\* ======================================================================

\* the conditions of the index invariant for one row
InPolicyDomain(p, e) == policy[p].domain \in domains[e]
Sound(e) ==
    /\ policy[e.policy].exists
    /\ e.permission \in policy[e.policy].allow_permissions
    /\ InPolicyDomain(e.policy, e.source)
    /\ InPolicyDomain(e.policy, e.target)
    /\ policy[e.policy].source_attrs \subseteq attrs[e.source]
    /\ policy[e.policy].target_attrs \subseteq attrs[e.target]

\* the rows the policies call for
Owed ==
    {e \in [policy : Existing, source : Entity, permission : Permission, target : Entity] :
        Sound(e) /\ PermCT[e.permission] \in content_types[e.target]}

\* C1: soundness of the entitlement index: every row's permission is allowed
\* by its policy, its source and target are direct members of the policy's
\* domain, and they carry every source / target attribute of the policy.
C1_IndexSound == \A e \in entitlements : Sound(e)

\* C2: completeness of the entitlement index: every (policy, source,
\* permission, target) that meets the conditions has its row.
C2_IndexComplete == Owed \subseteq entitlements

\* C3: the permission of every row has a content type the target carries.
C3_TargetContentType ==
    \A e \in entitlements : PermCT[e.permission] \in content_types[e.target]

\* the value has_perm hands back, or nothing when it raises
ReturnsTrue(r) == r.raised = "no" /\ r.value
\* subject and target values that stand for an entity
Normalizable(x) == x.kind \in {"component", "entity"}
\* the entitlement rows that answer the query (subject, "app.codename", target)
Matching(user_obj, perm, obj) ==
    {e \in entitlements :
        /\ e.source = user_obj.entity
        /\ e.target = obj.entity
        /\ perm = <<app_label[PermCT[e.permission]], ".", e.permission>>
        /\ ~deleted_time[e.source]
        /\ ~deleted_time[e.target]
        /\ ~policy[e.policy].disabled}

\* C4: has_perm(subject, "app.codename", target) returns true if and only if
\* an entitlement row exists for the subject's entity, the target's entity and
\* the permission with that codename and app label, with neither entity
\* soft-deleted and the policy not disabled; the query changes no state.
C4_HasPermIffEntitlement ==
    [][(query = NoQuery /\ query' # NoQuery) =>
          /\ UNCHANGED store
          /\ (Normalizable(query'[1]) /\ Normalizable(query'[3])) =>
                (ReturnsTrue(result') <=> Matching(query'[1], query'[2], query'[3]) # {})]_vars

\* C5: authorization queries never raise: has_perm returns a boolean for
\* every subject, target and permission string, and returns false when the
\* subject or target cannot be normalized or the permission lookup fails.
C5_HasPermNeverRaises ==
    query # NoQuery =>
        /\ result.raised = "no"
        /\ ( \/ ~Normalizable(query[1])
             \/ ~Normalizable(query[3])
             \/ Len(query[2]) # 3
             \/ PermissionLookup(<<query[2][1]>>, <<query[2][3]>>) = {} ) => ~result.value

\* has_perm(u, "testapp.can_use_thing", t) for two components
CanUse(u, t) ==
    ReturnsTrue(has_perm(Store, Component(u), <<"testapp", ".", "can_use_thing">>, Component(t)))
\* u and t meet the clauses of policy p for can_use_thing
Conjunction(p, u, t) ==
    Sound([policy |-> p, source |-> u, permission |-> "can_use_thing", target |-> t])
\* the index holds exactly the rows the policies call for
IndexExact == entitlements = Owed
\* nothing but a missing attribute keeps u from using t
Live(u, t) == ~deleted_time[u] /\ ~deleted_time[t] /\ "thing" \in content_types[t]

\* this step is an attribute addition / removal, from either side
AddsAttr(e, a) ==
    \/ Apply(add_attr(Store, e, a))
    \/ Apply(attribute_entities_add(Store, a, {e}))
RemovesAttr(e, a) ==
    \/ Apply(remove_attr(Store, e, a))
    \/ Apply(attribute_entities_remove(Store, a, {e}))

\* the policy of test_complex_policy: two source attributes, one target attribute
ComplexPolicy(p) ==
    /\ policy[p].exists /\ ~policy[p].disabled
    /\ policy[p].source_attrs = {RoleMember, HonorDistinguished}
    /\ policy[p].target_attrs = {AccessExclusive}
    /\ policy[p].allow_permissions = {"can_use_thing"}
\* the attributes of the conjunction, each with the entity that must carry it
ConjunctionAttrs(p, u, t) ==
    {<<u, a>> : a \in policy[p].source_attrs} \cup {<<t, a>> : a \in policy[p].target_attrs}

C6_OnlyWithAll(p, u, t) == (ComplexPolicy(p) /\ CanUse(u, t)) => Conjunction(p, u, t)
C6_RemoveOne(p, u, t) ==
    \A ea \in ConjunctionAttrs(p, u, t) :
        (ComplexPolicy(p) /\ CanUse(u, t) /\ RemovesAttr(ea[1], ea[2])) => ~CanUse(u, t)'
C6_AddBack(p, u, t) ==
    \A ea \in ConjunctionAttrs(p, u, t) :
        ( /\ ComplexPolicy(p) /\ IndexExact /\ Live(u, t)
          /\ ea[2] \notin attrs[ea[1]]
          /\ AddsAttr(ea[1], ea[2])
          /\ InPolicyDomain(p, u) /\ InPolicyDomain(p, t)
          /\ policy[p].source_attrs \subseteq attrs[u] \cup {a \in {ea[2]} : ea[1] = u}
          /\ policy[p].target_attrs \subseteq attrs[t] \cup {a \in {ea[2]} : ea[1] = t} )
        => CanUse(u, t)'

\* C6: ALL-conjunction: under a policy with source_attrs {a1, a2} and
\* target_attrs {b}, has_perm(U, p, T) is true only where U carries a1 and a2
\* and T carries b, both in the policy's domain; removing any one of the
\* attributes makes it false and adding it back, from the entity side or from
\* the attribute side, makes it true again.
C6_AllConjunction ==
    [][\A p \in PolicyId, u \in Plain, t \in Plain :
          /\ C6_OnlyWithAll(p, u, t)'
          /\ C6_RemoveOne(p, u, t)
          /\ C6_AddBack(p, u, t)]_vars

\* the policy of test_simple_policy: one source attribute, no target attribute
SimplePolicy(p) ==
    /\ policy[p].exists /\ ~policy[p].disabled
    /\ policy[p].source_attrs = {RoleMember}
    /\ policy[p].target_attrs = {}
    /\ policy[p].allow_permissions = {"can_use_thing"}

C7_MerelyMembers(p, u, t) ==
    (SimplePolicy(p) /\ InPolicyDomain(p, u) /\ InPolicyDomain(p, t) /\ RoleMember \notin attrs[u])
        => ~CanUse(u, t)
C7_SourceAttribute(p, u, t) ==
    ( /\ SimplePolicy(p) /\ IndexExact /\ Live(u, t)
      /\ InPolicyDomain(p, u) /\ InPolicyDomain(p, t)
      /\ RoleMember \notin attrs[u]
      /\ AddsAttr(u, RoleMember) )
    => CanUse(u, t)'
C7_Removed(p, u, t) ==
    (SimplePolicy(p) /\ Apply(remove_from_domain(Store, t, policy[p].domain))) => ~CanUse(u, t)'
C7_ReAdded(p, u, t) ==
    ( /\ SimplePolicy(p) /\ IndexExact /\ Live(u, t)
      /\ InPolicyDomain(p, u) /\ RoleMember \in attrs[u]
      /\ ~InPolicyDomain(p, t)
      /\ Apply(add_to_domain(Store, strict_cycles, t, policy[p].domain)) )
    => CanUse(u, t)'

\* C7: domain membership is necessary and its loss is reversible: under a
\* policy with source_attrs {role:member} and no target attributes,
\* has_perm(U, p, T) is false while U and T are merely members, true once U
\* gets the source attribute, false after T.remove_from_domain(D) and true
\* again after T is re-added to D.
C7_MembershipReversible ==
    [][\A p \in PolicyId, u \in Plain, t \in Plain :
          /\ C7_MerelyMembers(p, u, t)'
          /\ C7_SourceAttribute(p, u, t)
          /\ C7_Removed(p, u, t)
          /\ C7_ReAdded(p, u, t)]_vars

\* the permission string of a catalogue permission
PermStr(perm) == <<app_label[PermCT[perm]], ".", perm>>
\* has_perm(s, perm, t) for two components and a catalogue permission
Can(s, perm, t) == ReturnsTrue(has_perm(Store, Component(s), PermStr(perm), Component(t)))
\* every row that could answer the query belongs to policy p
OnlyThrough(p, s, perm, t) ==
    \A e \in entitlements :
        (e.source = s /\ e.permission = perm /\ e.target = t) => e.policy = p
\* what the attributes and memberships call for
Determined(s, perm, t) ==
    /\ ~deleted_time[s] /\ ~deleted_time[t]
    /\ \E e \in Owed : e.source = s /\ e.permission = perm /\ e.target = t
\* the entities with a User component
User == {e \in Plain : "user" \in content_types[e]}
\* policy.disabled = value; policy.save()
SetsDisabled(p, value) ==
    /\ policy[p].exists
    /\ policy[p].disabled # value
    /\ Apply(policy_save(Store, p, [policy[p] EXCEPT !.disabled = value]))

C8_Disable(p) ==
    SetsDisabled(p, TRUE) =>
        /\ entitlements' = entitlements
        /\ \A s \in User, perm \in Permission, t \in Plain :
              OnlyThrough(p, s, perm, t) => ~Can(s, perm, t)'
C8_Enable(p) ==
    SetsDisabled(p, FALSE) =>
        \A s \in User, perm \in Permission, t \in Plain :
            OnlyThrough(p, s, perm, t) => (Can(s, perm, t)' <=> Determined(s, perm, t)')

\* C8: setting policy.disabled = true makes every has_perm query satisfied
\* only through that policy false and deletes none of its rows; setting it
\* back to false restores has_perm to the value the current attributes and
\* memberships determine.
C8_DisabledHides == [][\A p \in PolicyId : C8_Disable(p) /\ C8_Enable(p)]_vars

\* t is a target of policy p for permission perm
TargetOf(p, perm, t) ==
    /\ InPolicyDomain(p, t)
    /\ policy[p].target_attrs \subseteq attrs[t]
    /\ perm \in policy[p].allow_permissions
    /\ PermCT[perm] \in content_types[t]
\* s is a source of policy p
SourceOf(p, s) == InPolicyDomain(p, s) /\ policy[p].source_attrs \subseteq attrs[s]
Enabled(p) == policy[p].exists /\ ~policy[p].disabled

C9_Completes(p, s) ==
    \A a \in policy[p].source_attrs :
        ( /\ Enabled(p) /\ IndexExact
          /\ a \notin attrs[s]
          /\ InPolicyDomain(p, s)
          /\ policy[p].source_attrs \subseteq attrs[s] \cup {a}
          /\ AddsAttr(s, a) )
        => \A perm \in Permission, t \in Plain :
              (TargetOf(p, perm, t) /\ Live(s, t)) => Can(s, perm, t)'
\* nothing about the policy, its source, its target or the permission changes
C9_Undisturbed(p, s, perm, t) ==
    /\ policy[p]' = policy[p]
    /\ SourceOf(p, s)'
    /\ TargetOf(p, perm, t)'
    /\ deleted_time' = deleted_time
C9_Stays(p, s) ==
    \A perm \in Permission, t \in Plain :
        ( /\ Enabled(p) /\ SourceOf(p, s) /\ TargetOf(p, perm, t)
          /\ Can(s, perm, t)
          /\ C9_Undisturbed(p, s, perm, t) )
        => Can(s, perm, t)'

\* C9: permission monotonicity on add: after an attribute addition completes
\* a policy's source conjunction for s, has_perm(s, p, t) is true for every
\* permission and target of the policy, and it stays true until the attribute
\* is removed from s, the policy is disabled or s leaves the policy's domain.
C9_MonotoneOnAdd ==
    [][\A p \in PolicyId, s \in Plain : C9_Completes(p, s) /\ C9_Stays(p, s)]_vars

\* x is a direct member of y
MemberOf(x, y) == y \in domains[x]
\* the closed walks of the membership graph over the domains
DomainCycles ==
    {w \in UNION {[1..n -> Domain] : n \in 1..Cardinality(Domain)} :
        \A i \in DOMAIN w : MemberOf(w[i], w[(i % Len(w)) + 1])}

\* C10: the domain membership graph is acyclic in every reachable state: no
\* domain is a member of itself and no domain is reachable from itself
\* through one or more subdomain edges.
C10_DomainGraphAcyclic == DomainCycles = {}

\* a two-level hierarchy stands and an addition that would close a cycle has
\* just been rejected
C10_CycleAttemptRejected ==
    /\ err = "CycleViolation"
    /\ MemberOf("SSD", "SD")
    /\ MemberOf("SD", "D")

\* this step tries to add the objects to domain A, or the entity B to A
\* from the entity's side
AddsToDomain(A, objs) == Apply(domain_entities_add(Store, strict_cycles, A, objs))
AddsDomainTo(B, A) == Apply(entity_domains_add(Store, strict_cycles, B, {A}))

\* C11: an attempt to add domain B to domain A while
\* B.has_subdomain_recursive(A) holds (A = B included) is rejected:
\* afterwards B is not in A and every membership that existed still exists;
\* made on its own, the attempt changes no membership at all.
C11_CycleAttemptLeavesMemberships ==
    [][\A A \in Domain, B \in Domain :
          has_subdomain_recursive(Store, B, A) =>
             /\ (Apply(add_to_domain(Store, strict_cycles, B, A)) \/ AddsDomainTo(B, A))
                   => (domains' = domains /\ ~MemberOf(B, A)')
             /\ \A objs \in DagBatch(DagEntity) :
                   (B \in objs /\ AddsToDomain(A, objs))
                      => (~MemberOf(B, A)' /\ \A e \in Entity : domains[e] \subseteq domains'[e])]_vars

\* an attempt on a standing hierarchy has been rejected and nothing was lost
C11_RejectedOnHierarchy ==
    /\ err = "CycleViolation"
    /\ MemberOf("SD", "D")
    /\ ~MemberOf("D", "SD")
    /\ ~MemberOf("D", "D")

\* the elements of a batch that would close a cycle through A
Offending(A, objs) == {B \in objs \cap Domain : has_subdomain_recursive(Store, B, A)}

C13_IsInDomain ==
    \A e \in DagEntity, d \in Domain :
        /\ is_in_domain(Store, e, d, FALSE) <=> MemberOf(e, d)
        /\ is_in_domain(Store, e, d, TRUE) <=>
              \E x \in Domain : has_subdomain_recursive(Store, d, x) /\ MemberOf(e, x)
        /\ (domains[e] = {"SSD"} /\ MemberOf("SSD", "SD") /\ MemberOf("SD", "D") /\ d = "D")
              => (~is_in_domain(Store, e, d, FALSE) /\ is_in_domain(Store, e, d, TRUE))

\* bob of test_subdomains: in the sub-subdomain only
C13_SubSubdomainMember ==
    /\ domains["U"] = {"SSD"}
    /\ MemberOf("SSD", "SD") /\ MemberOf("SD", "D")
    /\ is_in_domain(Store, "U", "D", TRUE)
    /\ ~is_in_domain(Store, "U", "D", FALSE)

\* C14: add_attr on an entity that is not a member of the attribute's
\* domain fails with DomainViolation and leaves the entity's attributes and
\* the entitlement index unchanged; on a member it succeeds and has_attr
\* becomes true.
C14_AddAttrGuard ==
    [][\A e \in Plain, a \in Attribute :
          Apply(add_attr(Store, e, a)) =>
             IF MemberOf(e, a.domain)
             THEN err' = "ok" /\ a \in attrs'[e]
             ELSE err' = "DomainViolation" /\ attrs' = attrs /\ entitlements' = entitlements]_vars

\* C15: remove_from_domain(d) takes the entity out of d and takes from it
\* every attribute whose domain is d and no other attribute; so after any
\* sequence of add_to_domain, add_attr, remove_attr and remove_from_domain
\* every attribute an entity holds belongs to a domain it is a member of.
C15_RemoveFromDomainDropsAttrs ==
    [][/\ \A e \in MemberEntity, d \in MemberDomain :
             Apply(remove_from_domain(Store, e, d)) =>
                /\ ~MemberOf(e, d)'
                /\ attrs'[e] = {a \in attrs[e] : a.domain # d}
       /\ \A e \in Entity : \A a \in attrs'[e] : MemberOf(e, a.domain)']_vars

\* the user joined both domains, took an attribute in each and left D: the
\* attribute of SD is all that is left
C15_LeftOneDomain ==
    /\ budget = 0
    /\ err = "ok"
    /\ domains["U"] = {"SD"}
    /\ attrs["U"] = {SubRoleMember}
    /\ domains["T"] = {} /\ attrs["T"] = {}
    /\ Existing = {}

\* a component row of the lifecycle model, and the calls made on it
LifeRow == LifeEntity \X LifeType
Deletes(e, ct, hard_delete, isolated) ==
    /\ component[e][ct] # NoRow
    /\ Apply(ComponentModel_delete(Store, e, ct, hard_delete, isolated, Now))

\* C16: delete() with no hard flag on a live component takes it out of the
\* default view and keeps it in the archive view, and undelete() on the
\* archive view brings back exactly the state before the delete; the same
\* for delete() on the queryset of the default view.
C16_SoftDeleteRoundTrip ==
    [][/\ \A w \in LifeRow :
             (component[w[1]][w[2]] = 0 /\ Deletes(w[1], w[2], FALSE, FALSE)) =>
                /\ w[1] \notin objects(Store, w[2])'
                /\ w[1] \in objects_archive(Store, w[2])'
                /\ queryset_undelete(Store', {w[1]}, w[2]).S = Store
       /\ \A ct \in LifeType :
             ( /\ objects(Store, ct) # {}
               /\ Apply(queryset_delete(Store, objects(Store, ct), ct, FALSE, Now)) ) =>
                /\ objects(Store, ct)' = {}
                /\ objects_archive(Store, ct)' = objects_archive(Store, ct)
                /\ queryset_undelete(Store', objects(Store, ct), ct).S = Store]_vars

\* C17: a second delete() right after a first leaves the store as the first
\* left it: the row is soft-deleted, is in the archive view, and nothing
\* else has changed.
C17_SoftDeleteIdempotent ==
    [][\A w \in LifeRow :
          Deletes(w[1], w[2], FALSE, FALSE) =>
             /\ component'[w[1]][w[2]] > 0
             /\ w[1] \in objects_archive(Store, w[2])'
             /\ ComponentModel_delete(Store', w[1], w[2], FALSE, FALSE, Now').S = Store']_vars

\* C18: delete(hard, not isolated) removes the entity and every component
\* on it, soft-deleted ones included: none is in any archive view, the
\* lookup of the entity fails, other entities keep their rows, and every
\* component row left refers to an existing entity.
C18_HardDeleteCascades ==
    [][/\ \A w \in LifeRow :
             Deletes(w[1], w[2], TRUE, FALSE) =>
                /\ \A ct \in ContentType : w[1] \notin objects_archive(Store, ct)'
                /\ Entity_get(Store, w[1])' = "DoesNotExist"
                /\ entity_ids' = entity_ids \ {w[1]}
                /\ \A x \in Entity \ {w[1]} : component'[x] = component[x]
       /\ \A x \in Entity, ct \in ContentType :
             component'[x][ct] # NoRow => x \in entity_ids']_vars

\* one hard delete took the composite entity and both its components
C18_CompositeGone ==
    /\ budget = MaxLifeOps - 1
    /\ err = "ok"
    /\ "U" \notin entity_ids
    /\ objects_archive(Store, "user") = {}
    /\ "U" \notin objects_archive(Store, "thing")
    /\ "T" \in objects_archive(Store, "thing")

\* C19: delete(hard, isolated) removes that component alone: the entity's
\* content_types loses exactly that type, cast to it fails, cast to the
\* other types answers as before, nothing else changes, and a component of
\* the type can be created on the entity again, restoring content_types.
C19_IsolatedHardDelete ==
    [][\A w \in LifeRow :
          Deletes(w[1], w[2], TRUE, TRUE) =>
             /\ w[2] \in content_types[w[1]]
             /\ content_types' = [content_types EXCEPT ![w[1]] = @ \ {w[2]}]
             /\ component' = [component EXCEPT ![w[1]][w[2]] = NoRow]
             /\ UNCHANGED <<entity_ids, deleted_time, attrs, domains, policy, entitlements>>
             /\ cast(Store, w[1], w[2])' = NotFound
             /\ \A ct \in ContentType \ {w[2]} : cast(Store, w[1], ct)' = cast(Store, w[1], ct)
             /\ LET r == create_component(Store', w[1], w[2])
                IN  /\ r.err = "ok"
                    /\ r.S.content_types = content_types
                    /\ cast(r.S, w[1], w[2]) = [err |-> "ok", row |-> w]]_vars

\* the composite entity lost its user component and is still a thing
C19_UserComponentRemoved ==
    /\ budget = MaxLifeOps - 1
    /\ err = "ok"
    /\ "U" \in entity_ids
    /\ content_types["U"] = {"thing"}
    /\ component["U"]["user"] = NoRow
    /\ component["U"]["thing"] = 0

\* C20: delete(not hard, isolated) marks that component alone: it leaves
\* its default view and cast to its type fails, it stays in its archive
\* view, content_types is unchanged, the entity is not soft-deleted and its
\* other components stay in their default views.
C20_IsolatedSoftDelete ==
    [][\A w \in LifeRow :
          Deletes(w[1], w[2], FALSE, TRUE) =>
             /\ objects(Store, w[2])' = objects(Store, w[2]) \ {w[1]}
             /\ cast(Store, w[1], w[2])' = NotFound
             /\ w[1] \in objects_archive(Store, w[2])'
             /\ UNCHANGED <<content_types, entity_ids, deleted_time>>
             /\ ~deleted_time'[w[1]]
             /\ \A ct \in ContentType \ {w[2]} : objects(Store, ct)' = objects(Store, ct)]_vars

\* the composite entity's user component is marked, its thing component live
C20_UserComponentMarked ==
    /\ budget = MaxLifeOps - 1
    /\ err = "ok"
    /\ component["U"]["user"] > 0
    /\ component["U"]["thing"] = 0
    /\ content_types["U"] = {"user", "thing"}
    /\ "U" \in objects_archive(Store, "user") /\ "U" \notin objects(Store, "user")

\* C21: at most one component per entity and type: creating a component
\* of a type on an entity that carries one, live or soft-deleted, fails with
\* an integrity error and changes nothing; creating a component with no
\* entity allocates a fresh entity whose content_types is exactly the type.
C21_OneComponentPerType ==
    [][/\ \A w \in LifeRow :
             (component[w[1]][w[2]] # NoRow /\ Apply(create_component(Store, w[1], w[2]))) =>
                err' = "IntegrityError" /\ UNCHANGED store
       /\ \A ct \in LifeType :
             (Plain \ entity_ids # {} /\ Apply(create(Store, ct))) =>
                \E e \in Entity \ entity_ids :
                   /\ err' = "ok"
                   /\ entity_ids' = entity_ids \cup {e}
                   /\ content_types' = [content_types EXCEPT ![e] = {ct}]
                   /\ component' = [component EXCEPT ![e] = [c \in ContentType |->
                                                               IF c = ct THEN 0 ELSE NoRow]]
                   /\ attrs'[e] = {} /\ domains'[e] = {} /\ ~deleted_time'[e]
                   /\ UNCHANGED <<deleted_time, attrs, domains, policy, entitlements>>]_vars

\* a user was created on a fresh entity, and a second user component was
\* refused on the entity whose user component is soft-deleted
C21_SecondUserRefused ==
    /\ err = "IntegrityError"
    /\ component["U"]["user"] > 0
    /\ "V" \in entity_ids /\ content_types["V"] = {"user"}

\* C22: soft-deleted entities produce no entitlements: no row of the index
\* has a soft-deleted entity as its source or its target, whether the row
\* was there before the soft delete or would be written during it.
C22_NoRowOfSoftDeleted ==
    \A e \in entitlements : ~deleted_time[e.source] /\ ~deleted_time[e.target]

\* C22, amended: rows of a soft-deleted entity may stay in the index, and
\* no query answers true while its source or its target is soft-deleted.
C22_SoftDeletedHidden ==
    /\ \A s \in Plain, perm \in Permission, t \in Plain :
          (deleted_time[s] \/ deleted_time[t]) => ~Can(s, perm, t)
    /\ (query # NoQuery /\ query[1].kind = "component" /\ query[3].kind \in {"component", "entity"}
          /\ (deleted_time[query[1].entity] \/ deleted_time[query[3].entity]))
       => ~ReturnsTrue(result)

\* the thing was soft-deleted with its row in the index, and the user was
\* refused
C22_RowKeptQueryRefused ==
    /\ deleted_time["T"] /\ ~deleted_time["U"]
    /\ \E e \in entitlements :
          e.source = "U" /\ e.target = "T" /\ e.permission = "can_use_thing"
                         /\ ~policy[e.policy].disabled
    /\ query = <<Component("U"), PermStr("can_use_thing"), Component("T")>>
    /\ result = Returns(FALSE)

\* C23: a mutation and the propagation it triggers are atomic: when the
\* receiver of an attribute, membership or policy-set change raises, the
\* primary change and every row the receiver wrote or deleted are undone,
\* and the store is what it was before the mutation.
C23_MutationAtomic ==
    [][(err' # "ok" /\ ~PolicyCreateFromStrs) => UNCHANGED store]_vars

\* a receiver raised on a policy that has rows, and the rows are there
C23_ReceiverRaised ==
    /\ err \in {"ValueError", "IntegrityError", "AttributeError"}
    /\ Existing # {}
    /\ entitlements # {}

\* the members of the policy's domain that carry every attribute of the set
Carriers(p, attr_set) == {e \in Entity : InPolicyDomain(p, e) /\ attr_set \subseteq attrs[e]}

\* C24: policy.sources() is exactly the members of policy.domain that carry
\* every attribute of source_attrs, of whatever component type, and every
\* member when source_attrs is empty; policy.targets() is the same with
\* target_attrs.
C24_SourcesAndTargets ==
    \A p \in Existing :
        /\ sources(Store, p) = Carriers(p, policy[p].source_attrs)
        /\ targets(Store, p) = Carriers(p, policy[p].target_attrs)

\* C24, amended: sources() is exactly the members that are not soft-deleted,
\* carry a User component and carry every attribute of source_attrs;
\* targets() is exactly the members of any component type that are not
\* soft-deleted and carry every attribute of target_attrs.
C24_UserSourcesLiveTargets ==
    \A p \in Existing :
        /\ sources(Store, p) =
              {e \in Carriers(p, policy[p].source_attrs) :
                  ~deleted_time[e] /\ "user" \in content_types[e]}
        /\ targets(Store, p) =
              {e \in Carriers(p, policy[p].target_attrs) : ~deleted_time[e]}
        /\ policy[p].source_attrs = {}
              => sources(Store, p) = {e \in User : InPolicyDomain(p, e) /\ ~deleted_time[e]}

\* a catch-all policy: the thing is a member and a target, and no source
C24_ThingIsNoSource ==
    \E p \in Existing :
        /\ policy[p].source_attrs = {} /\ policy[p].target_attrs = {}
        /\ MemberOf("T", "D") /\ MemberOf("U", "D")
        /\ ~deleted_time["T"] /\ ~deleted_time["U"]
        /\ "T" \in targets(Store, p) /\ "T" \notin sources(Store, p)
        /\ "U" \in sources(Store, p) /\ "U" \in targets(Store, p)

\* the rows create_entitlements is to write for the policy
Materialized(p) ==
    {Entitlement(p, x[1], x[2], x[3]) :
        x \in {y \in sources(Store, p) \X policy[p].allow_permissions \X targets(Store, p) :
                  PermCT[y[2]] \in content_types[y[3]]}}

\* C25: create_entitlements() materializes the policy in full: after it
\* returns, the row of every source, target and allowed permission whose
\* content type the target carries is there; it does not raise on rows that
\* exist, writes no other row, and a second call changes nothing.
C25_FullMaterialization ==
    [][\A p \in PolicyId, disabled \in BOOLEAN :
          ( /\ policy[p].exists
            /\ Apply(policy_save(Store, p, [policy[p] EXCEPT !.disabled = disabled])) ) =>
               /\ err' = "ok"
               /\ entitlements' = entitlements \cup Materialized(p)
               /\ create_entitlements(Store', p) = Ok(Store')]_vars

\* C26: create_from_strs is all-or-nothing: when it fails, on a permission
\* string that names no permission or on a (domain, label) that is taken,
\* the store is unchanged: no policy row, no newly interned attribute, no
\* entitlement row; and no two policies share a (domain, label).
C26_CreateAllOrNothing ==
    [][/\ (PolicyCreateFromStrs /\ err' # "ok") => UNCHANGED store
       /\ \A p \in Existing', q \in Existing' :
             (policy'[p].domain = policy'[q].domain /\ policy'[p].label = policy'[q].label)
                => p = q]_vars

\* C27: the index kept by the receivers is the index of the full rebuild:
\* reset_entitlements on a quiescent state completes and changes no row,
\* and it never touches the rows of a policy outside the queryset.
C27_ResetChangesNothing ==
    [][\A policies \in SUBSET Existing :
          Apply(reset_entitlements(Store, policies)) =>
             /\ err' = "ok"
             /\ entitlements' = entitlements
             /\ entitlements' = Owed]_vars

\* the rows of the policy whose permission is of a type the entity carries
RowsFitting(p, e) ==
    {x \in entitlements : x.policy = p /\ PermCT[x.permission] \in content_types[e]}
\* what _extrude_target is to emit for the entity
TargetRows(p, e) ==
    IF RowsFitting(p, e) # {}
    THEN {Entitlement(p, x.source, x.permission, e) : x \in RowsFitting(p, e)}
    ELSE {Entitlement(p, y[1], y[2], e) :
             y \in {z \in sources(Store, p) \X policy[p].allow_permissions :
                       PermCT[z[2]] \in content_types[e]}}

\* C28: _extrude_target(policy, e) emits (policy, s, p, e) for every pair
\* (p, s) entitled under the policy with p of a content type e carries, and
\* with no such pair falls back to sources() x allow_permissions filtered by
\* e's content types; it completes without error and every row it emits
\* has a permission of a content type e carries.
C28_ExtrudeTarget ==
    \A p \in Existing, e \in Plain :
        /\ _extrude_target(Store, p, e).err = "ok"
        /\ _extrude_target(Store, p, e).rows = TargetRows(p, e)
        /\ \A x \in _extrude_target(Store, p, e).rows :
              PermCT[x.permission] \in content_types[e]

\* the rows the policy calls for among entities that are not soft-deleted
OwedLive(p) ==
    {x \in Owed : x.policy = p /\ ~deleted_time[x.source] /\ ~deleted_time[x.target]}
\* what _extrude_source is to emit for the entity
SourceRows(p, e) ==
    IF PolicyEntitlements(Store, p) # {}
    THEN {Entitlement(p, e, x.permission, x.target) : x \in PolicyEntitlements(Store, p)}
    ELSE {Entitlement(p, e, y[2], y[1]) :
             y \in {z \in targets(Store, p) \X policy[p].allow_permissions :
                       PermCT[z[2]] \in content_types[z[1]]}}
\* e qualifies as a source and has no row yet; the other rows are exact
NewSource(p, e) ==
    /\ SourceOf(p, e) /\ ~deleted_time[e]
    /\ PolicyEntitlements(Store, p) = {x \in OwedLive(p) : x.source # e}

\* C29: _extrude_source(policy, e) emits (policy, e, p, t) for every pair
\* (p, t) in the policy's rows, and only when the policy has no row scans
\* targets() x allow_permissions filtered by the target's content types;
\* when the rows of the policy are sound and complete, what it emits is
\* exactly what e is owed as a new source.
C29_ExtrudeSource ==
    \A p \in Existing, e \in Plain :
        /\ _extrude_source(Store, p, e).err = "ok"
        /\ _extrude_source(Store, p, e).rows = SourceRows(p, e)
        /\ NewSource(p, e) =>
              _extrude_source(Store, p, e).rows = {x \in OwedLive(p) : x.source = e}

\* the user qualifies and has no row while another source has its rows, and
\* a policy with no row has a new source that is owed something
C29_NewSourceBesideRows ==
    \E p \in Existing :
        /\ NewSource(p, "U")
        /\ PolicyEntitlements(Store, p) # {}
        /\ _extrude_source(Store, p, "U").rows # {}

\* the policies whose source / target conjunction e completes by gaining a
CompletesSource(e, a) ==
    {p \in Existing : a \in policy[p].source_attrs
                      /\ policy[p].source_attrs \subseteq attrs[e] \cup {a}}
CompletesTarget(e, a) ==
    {p \in Existing : a \in policy[p].target_attrs
                      /\ policy[p].target_attrs \subseteq attrs[e] \cup {a}}

C31_RemoveDeletesOnlyBroken ==
    [][\A e \in Plain, a \in Attribute :
          RemovesAttr(e, a) =>
             \A x \in entitlements \ entitlements' :
                /\ \/ a \in policy[x.policy].source_attrs /\ x.source = e
                   \/ a \in policy[x.policy].target_attrs /\ x.target = e
                /\ ~Sound(x)']_vars

\* the policy mentions the attribute, as a source or as a target attribute
Mentions(p, a) == a \in policy[p].source_attrs \cup policy[p].target_attrs
\* the rows of the policies that mention a in which e is source or target
RowsOfUnder(e, a) ==
    {x \in entitlements : Mentions(x.policy, a) /\ (x.source = e \/ x.target = e)}
\* attribute a is removed from e: from e's side, or from the attribute's side
\* where Entity.objects shows e
RemovesAttrFrom(e, a) ==
    \/ Apply(remove_attr(Store, e, a))
    \/ ~deleted_time[e] /\ Apply(attribute_entities_remove(Store, a, {e}))

RemovesFromDomain(e, D) ==
    \/ Apply(domain_entities_remove(Store, D, {e}))
    \/ Apply(entity_domains_remove(Store, e, {D}))
\* the rows of the policies of D in which e is source or target
RowsOfIn(e, D) ==
    {x \in entitlements : policy[x.policy].domain = D /\ (x.source = e \/ x.target = e)}

\* C33: when an entity e that is not soft-deleted is removed from domain D,
\* every entitlement whose policy's domain is D and in which e is source or
\* target is deleted and no other entitlement is, whichever side of the
\* membership relation performs the removal.
C33_DomainRemove ==
    [][\A e \in Plain, D \in PolicyDomain :
          (~deleted_time[e] /\ RemovesFromDomain(e, D)) =>
             /\ err' = "ok"
             /\ entitlements' = entitlements \ RowsOfIn(e, D)]_vars

\* the index a full materialization of every policy would hold
FullIndex == UNION {Materialized(p) : p \in Existing}
\* this step adds e to domain D, from D's member set or from e's domain set
JoinsDomain(e, D) ==
    \/ Apply(domain_entities_add(Store, strict_cycles, D, {e}))
    \/ Apply(entity_domains_add(Store, strict_cycles, e, {D}))
\* the policies of D that take every member as a source / as a target
CatchAllSource(D) == {p \in Existing : policy[p].domain = D /\ policy[p].source_attrs = {}}
CatchAllTarget(D) == {p \in Existing : policy[p].domain = D /\ policy[p].target_attrs = {}}
\* the rows of a set in which e stands as source or target under the policies
RowsOf(rows, e, policies) ==
    {x \in rows : x.policy \in policies /\ (x.source = e \/ x.target = e)}

\* C34: when an entity e that is not soft-deleted is added to domain D, the
\* addition goes through, the rows present stay, and every row created has
\* e as its source under a policy of D with no source attributes or e as its
\* target under a policy of D with no target attributes; where the index was
\* the full materialization before the step, e has afterwards exactly the
\* rows it is owed under those catch-all policies: as a source only if it
\* is one of sources(), as a target only for permissions of its types.
C34_DomainAdd ==
    [][\A e \in Plain, D \in PolicyDomain :
          (~MemberOf(e, D) /\ ~deleted_time[e] /\ JoinsDomain(e, D)) =>
             /\ err' = "ok"
             /\ MemberOf(e, D)'
             /\ entitlements \subseteq entitlements'
             /\ \A x \in entitlements' \ entitlements :
                   \/ x.source = e /\ x.policy \in CatchAllSource(D)
                   \/ x.target = e /\ x.policy \in CatchAllTarget(D)
             /\ entitlements = FullIndex =>
                   RowsOf(entitlements', e, CatchAllSource(D) \cup CatchAllTarget(D))
                      = RowsOf(FullIndex', e, CatchAllSource(D) \cup CatchAllTarget(D))]_vars

\* C35: the propagator's inserts are conflict-safe: no mutation other than
\* storing a policy whose (domain, label) is taken ends in a uniqueness
\* violation; adding an entity to a domain and adding a permission to a
\* policy in particular never do.
C35_InsertsConflictSafe ==
    [][(~PolicyCreateFromStrs /\ ~PolicySave) => err' # "IntegrityError"]_vars

\* a second delivery of an event completes and leaves the index as it is
Harmless(r) == r.err = "ok" /\ r.S.entitlements = entitlements

\* C36: the propagator is idempotent per event: the event a mutation has
\* just sent (same handler, action, instance and pk set), delivered once
\* more in the state the first delivery left, completes without error and
\* leaves the entitlement index identical; for the attribute, the
\* domain-membership, the policy-attribute and the policy-permission events.
C36_RedeliveryHarmless ==
    [][/\ \A e \in Plain, a \in Attribute :
          /\ (a \notin attrs[e] /\ err' = "ok" /\ Apply(entity_attrs_add(Store, e, {a})))
                => Harmless(on_entity_attribute_change(Store, "post_add", "Entity", e, {a}))'
          /\ Apply(entity_attrs_remove(Store, e, {a}))
                => Harmless(on_entity_attribute_change(Store, "post_remove", "Entity", e, {a}))'
       /\ \A e \in Plain, D \in PolicyDomain :
          /\ (~MemberOf(e, D) /\ err' = "ok"
                 /\ Apply(domain_entities_add(Store, strict_cycles, D, {e})))
                => Harmless(on_entity_domain_change(Store, "post_add", "Domain", D, {e}))'
          /\ Apply(domain_entities_remove(Store, D, {e}))
                => Harmless(on_entity_domain_change(Store, "post_remove", "Domain", D, {e}))'
       /\ \A p \in Existing, a \in Attribute, action \in {"post_add", "post_remove"} :
          /\ ((action = "post_add" => a \notin policy[p].source_attrs) /\ err' = "ok"
                 /\ Apply(policy_attrs_change(Store, "source_attrs", action, "Policy", p, {a})))
                => Harmless(on_policy_attrs_change(Store, action, "Policy", p, {a}))'
       /\ \A p \in Existing, perm \in Permission, action \in {"post_add", "post_remove"} :
          /\ ((action = "post_add" => perm \notin policy[p].allow_permissions) /\ err' = "ok"
                 /\ Apply(policy_allow_permissions_change(Store, action, "Policy", p, {perm})))
                => Harmless(on_policy_allow_permissions_change(Store, action, "Policy", p, {perm}))'
      ]_vars

\* C37: after a policy is saved, with its disabled flag changed or not, the
\* save has completed and the policy's rows are exactly those of the full
\* materialization for its current domain, sources and targets: every row
\* that no longer matches them has been deleted.
C37_SaveSweepsOrphans ==
    [][\A p \in PolicyId, disabled \in BOOLEAN :
          ( /\ policy[p].exists
            /\ Apply(policy_save(Store, p, [policy[p] EXCEPT !.disabled = disabled])) ) =>
               /\ err' = "ok"
               /\ PolicyEntitlements(Store, p)' = Materialized(p)']_vars

\* this step adds an attribute to, or removes it from, source_attrs or
\* target_attrs of policy p, from the policy's side or from the attribute's
ChangesPolicyAttrs(p, a) ==
    \E field \in {"source_attrs", "target_attrs"}, action \in {"post_add", "post_remove"} :
        \/ Apply(policy_attrs_change(Store, field, action, "Policy", p, {a}))
        \/ Apply(policy_attrs_change(Store, field, action, "Attribute", a, {p}))

\* C38: after an attribute is added to or removed from a policy's
\* source_attrs or target_attrs, from either side of the relation, the step
\* has completed without error, the policy's rows are exactly the full
\* materialization sources() x targets() x the allowed permissions of a
\* content type the target carries, for the new attribute sets, and the
\* rows of every other policy are unchanged.
C38_PolicyAttrsRebuild ==
    [][\A p \in Existing, a \in Attribute :
          ChangesPolicyAttrs(p, a) =>
             /\ err' = "ok"
             /\ PolicyEntitlements(Store, p)' = Materialized(p)'
             /\ entitlements' \ PolicyEntitlements(Store, p)'
                   = entitlements \ PolicyEntitlements(Store, p)]_vars

\* this step adds the permission to the policy, or removes it, from the
\* policy's side or from the permission's
ChangesPermission(p, perm, action) ==
    \/ Apply(policy_allow_permissions_change(Store, action, "Policy", p, {perm}))
    \/ Apply(policy_allow_permissions_change(Store, action, "Permission", perm, {p}))
\* the rows of p cloned with the permission, for targets of its content type
Clones(p, perm) ==
    {Entitlement(p, x.source, perm, x.target) :
        x \in {y \in PolicyEntitlements(Store, p) : PermCT[perm] \in content_types[y.target]}}
\* the permissions of the rows of p for the pair of row x
PairPermissions(p, x) ==
    {y.permission : y \in {z \in PolicyEntitlements(Store, p) :
                              z.source = x.source /\ z.target = x.target}}
\* every entitled pair of p has the allowed permissions of its target's types
PairsExact(p) ==
    \A x \in PolicyEntitlements(Store, p) :
        PairPermissions(p, x) =
            {q \in policy[p].allow_permissions : PermCT[q] \in content_types[x.target]}

\* C39: when a permission is added to a policy, each (source, target) pair
\* entitled under the policy whose target carries the permission's content
\* type gets a row with it and no other row is created; when it is removed,
\* exactly the policy's rows with that permission are deleted; after either
\* change each entitled pair of the policy has exactly the allowed
\* permissions of a content type its target carries.
C39_PermissionChange ==
    [][\A p \in Existing, perm \in Permission :
          /\ (perm \notin policy[p].allow_permissions /\ ChangesPermission(p, perm, "post_add")) =>
                /\ err' = "ok"
                /\ entitlements' = entitlements \cup Clones(p, perm)
                /\ PairsExact(p)'
          /\ ChangesPermission(p, perm, "post_remove") =>
                /\ err' = "ok"
                /\ entitlements' =
                      entitlements \ {x \in PolicyEntitlements(Store, p) : x.permission = perm}
                /\ PairsExact(p)']_vars

\* e is a member of a subdomain of D and no direct member of D
BelowOnly(e, D) ==
    /\ ~is_in_domain(Store, e, D, FALSE)
    /\ is_in_domain(Store, e, D, TRUE)

\* C40: policies apply to direct members only: an entity that is a member
\* of a subdomain of D and no direct member of D is neither source nor
\* target of an entitlement of a policy of D, and has_perm is granted
\* neither to it nor on it, whatever attributes it carries.
C40_DirectMembersOnly ==
    \A e \in Plain, D \in PolicyDomain :
        BelowOnly(e, D) =>
            /\ RowsOfIn(e, D) = {}
            /\ \A x \in Plain, perm \in Permission : ~Can(e, perm, x) /\ ~Can(x, perm, e)

====
